---- MODULE Spec2Model ----
(***************************************************************************)
(* Filtered reduction "sum the balance of every active user whose balance  *)
(* meets a threshold": the scalar reducer, the two AVX2 reducers, their    *)
(* dispatchers and the repository path.                                    *)
(*                                                                         *)
(* Numbers.  Balances are integer-valued floats.  A single-precision value *)
(* has a 24-bit significand, so every single-precision operation rounds    *)
(* its exact result to the nearest multiple of the unit in the last place  *)
(* (ties to even): RoundF.  A double has a 53-bit significand; every value *)
(* of the model is below 2^31, so double operations are exact here.        *)
(* NaN and the infinities are outside the modelled domain.                 *)
(***************************************************************************)
EXTENDS Integers, Sequences, FiniteSets, TLC

VARIABLES
    usersView,        \* UsersView: [Ids, Balances, Active, Count]
    users,            \* the repository's std::vector<User>
    minimumBalance,   \* the threshold passed to every reducer
    defs,             \* predefined macros of the build (__AVX2__, __clang__, ...)
    cpuAvx2,          \* what __builtin_cpu_supports("avx2") answers on this CPU
    call,             \* the last call: which entry point ran, which kernels it invoked
    checksum,         \* main's checksum variable after the call
    threads,          \* concurrent kernel calls: where each thread's call stands
    frames            \* the accumulators of the kernels, by storage location

vars == <<usersView, users, minimumBalance, defs, cpuAvx2, call, checksum,
          threads, frames>>

(***************************************************************************)
(* Bounds of the model                                                     *)
(***************************************************************************)
MaxCount == 17
\* how many threads call a kernel at the same time
NumThreads == 2

(***************************************************************************)
(* Single-precision arithmetic on integer-valued floats                    *)
(***************************************************************************)
FloatSignificand == 16777216

RECURSIVE RoundMagnitude(_, _)
RoundMagnitude(m, ulp) ==
    IF (m \div ulp) < FloatSignificand
    THEN LET q == m \div ulp
             r == m % ulp
         IN  IF 2 * r < ulp THEN q * ulp
             ELSE IF 2 * r > ulp THEN (q + 1) * ulp
             ELSE IF q % 2 = 0 THEN q * ulp ELSE (q + 1) * ulp
    ELSE RoundMagnitude(m, 2 * ulp)

\* the nearest float to the exact value x, ties to even
RoundF(x) == IF x < 0 THEN 0 - RoundMagnitude(0 - x, 1) ELSE RoundMagnitude(x, 1)

FAdd(a, b) == RoundF(a + b)
FMul(a, b) == RoundF(a * b)
FMin(a, b) == IF a < b THEN a ELSE b

\* static_cast<double>(float), _mm256_cvtps_pd: every float is a double
FloatToDouble(x) == x
\* double -> float (the implicit conversion of a return statement): rounds
DoubleToFloat(x) == RoundF(x)
\* double addition: exact below 2^53
DAdd(a, b) == a + b

(***************************************************************************)
(* The structure-of-arrays view; code index i is sequence position i + 1   *)
(***************************************************************************)
BalanceAt(view, i) == view.Balances[i + 1]
ActiveAt(view, i) == view.Active[i + 1]

(***************************************************************************)
(* Scalar reducer                                                          *)
(***************************************************************************)
\* mutant: the comparison is strict
ScalarTakeValueStrict(activeByte, balanceValue, thresholdBalance) ==
    IF activeByte # 0 /\ balanceValue > thresholdBalance THEN 1 ELSE 0

ScalarTakeValue(activeByte, balanceValue, thresholdBalance) ==
    IF activeByte # 0 /\ balanceValue >= thresholdBalance THEN 1 ELSE 0

RECURSIVE ScalarLoop(_, _, _, _)
ScalarLoop(view, thresholdBalance, i, accumulatedBalance) ==
    IF i < view.Count
    THEN LET balanceValue == BalanceAt(view, i)
             takeValue == ScalarTakeValue(ActiveAt(view, i), balanceValue,
                                          thresholdBalance)
         IN  ScalarLoop(view, thresholdBalance, i + 1,
                        FAdd(accumulatedBalance, FMul(balanceValue, takeValue)))
    ELSE accumulatedBalance

SumActiveBalancesScalar(view, minBalance) == ScalarLoop(view, minBalance, 0, 0)

\* bench-dod.cpp holds the same reducer under the name SumActiveBalances
DodSumActiveBalances(view, minBalance) == ScalarLoop(view, minBalance, 0, 0)

(***************************************************************************)
(* Lane-wise AVX2 operations; a register is a sequence of lanes            *)
(***************************************************************************)
Lanes8 == 1..8
Lanes4 == 1..4

\* _mm256_loadu_ps(&balances[i]): eight consecutive floats
LoadPs(view, i) == [k \in Lanes8 |-> BalanceAt(view, i + k - 1)]
\* _mm_loadl_epi64(&activeFlags[i]): eight consecutive bytes
LoadBytes(view, i) == [k \in Lanes8 |-> ActiveAt(view, i + k - 1)]
\* mutant: _mm256_cvtepi8_epi32, sign-extension
CvtEpi8Epi32(byte) == IF byte >= 128 THEN byte - 256 ELSE byte
\* _mm256_cvtepu8_epi32: zero-extension, a byte 0..255 keeps its value
CvtEpu8Epi32(byte) == byte
\* _mm256_cvtepi32_ps
CvtEpi32Ps(int) == RoundF(int)
\* mutant: _CMP_GT_OQ
CmpGtOq(b, threshold) == IF b > threshold THEN "ones" ELSE "zeros"
\* _mm256_cmp_ps(b, threshold, _CMP_GE_OQ): an all-ones or all-zeros lane
CmpGeOq(b, threshold) == IF b >= threshold THEN "ones" ELSE "zeros"
\* mutant: the comparison mask is dropped
AndPsWithoutMask(mask, x) == x
\* _mm256_and_ps(mask, x) for an all-ones / all-zeros mask
AndPs(mask, x) == IF mask = "ones" THEN x ELSE 0

\* the 0/1 multiplier of one lane: widen, convert, clamp to 1.0
ActiveLane(byte) == FMin(CvtEpi32Ps(CvtEpu8Epi32(byte)), 1)

\* per-lane contribution of the group of eight starting at index i
ContribPs(view, threshold, i) ==
    LET b == LoadPs(view, i)
        bytes == LoadBytes(view, i)
    IN  [k \in Lanes8 |->
            FMul(b[k], AndPs(CmpGeOq(b[k], threshold), ActiveLane(bytes[k])))]

\* the eight element indices a group load at index i touches
GroupIndices(i) == [k \in Lanes8 |-> i + k - 1]

\* mutant: the activity bytes are fetched with a 16-byte load
FlagLoadIndicesSi128(i) == [k \in 1..16 |-> i + k - 1]

\* _mm_loadl_epi64 at activeFlags + i: the eight bytes it fetches
FlagLoadIndices(i) == [k \in Lanes8 |-> i + k - 1]

\* the memory reads of a kernel, one entry per element fetched
LoadOf(array, indices) ==
    [k \in DOMAIN indices |-> [array |-> array, index |-> indices[k]]]

\* one group: _mm256_loadu_ps at balances + i, _mm_loadl_epi64 at activeFlags + i
GroupLoads(i) ==
    LoadOf("balances", GroupIndices(i)) \o LoadOf("activeFlags", FlagLoadIndices(i))

\* one tail iteration: activeFlags[i], then balances[i] behind the &&
TailLoads(view, i) ==
    <<[array |-> "activeFlags", index |-> i]>> \o
    (IF ActiveAt(view, i) # 0 THEN <<[array |-> "balances", index |-> i]>> ELSE <<>>)

\* the scalar tail's predicate
TailQualifies(activeByte, balanceValue, minBalance) ==
    activeByte # 0 /\ balanceValue >= minBalance

(***************************************************************************)
(* Vector reducer, wide accumulation (bench-dod-avx2-double.cpp)           *)
(***************************************************************************)
VectorWidthDouble == 8

FloorToWidth(count, vectorWidth) == (count \div vectorWidth) * vectorWidth

\* state of the kernel between loop iterations:
\*   i, acc0, acc1 as in the code; vec and tail list the indices each loop read,
\*   loads lists every element fetched from memory
\* one iteration of the vector loop
DoubleVectorStep(view, threshold, s) ==
    LET contrib == ContribPs(view, threshold, s.i)
        low == [k \in Lanes4 |-> contrib[k]]
        high == [k \in Lanes4 |-> contrib[k + 4]]
    IN  [i |-> s.i + VectorWidthDouble,
         acc0 |-> [k \in Lanes4 |-> DAdd(s.acc0[k], FloatToDouble(low[k]))],
         acc1 |-> [k \in Lanes4 |-> DAdd(s.acc1[k], FloatToDouble(high[k]))],
         vec |-> s.vec \o GroupIndices(s.i),
         loads |-> s.loads \o GroupLoads(s.i)]

RECURSIVE DoubleVectorLoop(_, _, _, _)
DoubleVectorLoop(view, threshold, n8, s) ==
    IF s.i < n8
    THEN DoubleVectorLoop(view, threshold, n8, DoubleVectorStep(view, threshold, s))
    ELSE s

\* mutant: the second accumulator is left out of the reduction
DoubleHorizontalSumAcc0Only(acc0, acc1) ==
    LET sum == <<DAdd(acc0[1], acc0[3]), DAdd(acc0[2], acc0[4])>>
    IN  DAdd(sum[1], sum[2])

\* _mm256_add_pd, the 128-bit halves, _mm_add_pd, then the two lanes
DoubleHorizontalSum(acc0, acc1) ==
    LET acc == [k \in Lanes4 |-> DAdd(acc0[k], acc1[k])]
        sum == <<DAdd(acc[1], acc[3]), DAdd(acc[2], acc[4])>>
    IN  DAdd(sum[1], sum[2])

\* one iteration of the scalar tail
DoubleTailStep(view, minBalance, s) ==
    [i |-> s.i + 1,
     accumulatedBalance |->
        IF TailQualifies(ActiveAt(view, s.i), BalanceAt(view, s.i), minBalance)
        THEN DAdd(s.accumulatedBalance, FloatToDouble(BalanceAt(view, s.i)))
        ELSE s.accumulatedBalance,
     tail |-> Append(s.tail, s.i),
     loads |-> s.loads \o TailLoads(view, s.i)]

RECURSIVE DoubleTailLoop(_, _, _)
DoubleTailLoop(view, minBalance, s) ==
    IF s.i < view.Count
    THEN DoubleTailLoop(view, minBalance, DoubleTailStep(view, minBalance, s))
    ELSE s

\* mutant: the tail loop starts over at index 0
DoubleTailStartZero(i) == 0

DoubleTailStart(i) == i

\* the whole kernel: [result, vec, tail, loads, prefetch]
RunAvx2Double(view, minBalance) ==
    LET zero == [k \in Lanes4 |-> 0]
        n8 == FloorToWidth(view.Count, VectorWidthDouble)
        v == DoubleVectorLoop(view, minBalance, n8,
                [i |-> 0, acc0 |-> zero, acc1 |-> zero, vec |-> <<>>,
                 loads |-> <<>>])
        t == DoubleTailLoop(view, minBalance,
                [i |-> DoubleTailStart(v.i),
                 accumulatedBalance |-> DoubleHorizontalSum(v.acc0, v.acc1),
                 tail |-> <<>>, loads |-> v.loads])
    IN  [result |-> t.accumulatedBalance, vec |-> v.vec, tail |-> t.tail,
         loads |-> t.loads, prefetch |-> <<>>]

SumActiveBalancesAvx2Double(view, minBalance) == RunAvx2Double(view, minBalance).result

(***************************************************************************)
(* Vector reducer, same precision, two streams (bench-dod-znver2.cpp)      *)
(***************************************************************************)
VectorWidthZnver2 == 16
PrefetchDistance == 256

\* mutant: the second stream loads the first stream's group again
SecondStreamOffsetNone(i) == i
SecondStreamOffset(i) == i + 8

\* one iteration of the vector loop: two prefetch hints, then two groups
Znver2VectorStep(view, threshold, s) ==
    LET contrib0 == ContribPs(view, threshold, s.i)
        contrib1 == ContribPs(view, threshold, SecondStreamOffset(s.i))
    IN  [i |-> s.i + VectorWidthZnver2,
         acc0 |-> [k \in Lanes8 |-> FAdd(s.acc0[k], contrib0[k])],
         acc1 |-> [k \in Lanes8 |-> FAdd(s.acc1[k], contrib1[k])],
         vec |-> s.vec \o GroupIndices(s.i)
                       \o GroupIndices(SecondStreamOffset(s.i)),
         loads |-> s.loads \o GroupLoads(s.i)
                           \o GroupLoads(SecondStreamOffset(s.i)),
         prefetch |-> s.prefetch \o
            <<[array |-> "balances", byte |-> 4 * s.i + PrefetchDistance],
              [array |-> "activeFlags", byte |-> s.i + PrefetchDistance]>>]

RECURSIVE Znver2VectorLoop(_, _, _, _)
Znver2VectorLoop(view, threshold, n16, s) ==
    IF s.i < n16
    THEN Znver2VectorLoop(view, threshold, n16, Znver2VectorStep(view, threshold, s))
    ELSE s

\* _mm256_add_ps, the 128-bit halves, _mm_add_ps, _mm_hadd_ps twice, lane 0
Znver2HorizontalSum(acc0, acc1) ==
    LET acc == [k \in Lanes8 |-> FAdd(acc0[k], acc1[k])]
        sum == [k \in Lanes4 |-> FAdd(acc[k], acc[k + 4])]
        h1 == <<FAdd(sum[1], sum[2]), FAdd(sum[3], sum[4]),
                FAdd(sum[1], sum[2]), FAdd(sum[3], sum[4])>>
        h2 == <<FAdd(h1[1], h1[2]), FAdd(h1[3], h1[4]),
                FAdd(h1[1], h1[2]), FAdd(h1[3], h1[4])>>
    IN  h2[1]

\* one iteration of the scalar tail
Znver2TailStep(view, minBalance, s) ==
    [i |-> s.i + 1,
     accumulatedBalance |->
        IF TailQualifies(ActiveAt(view, s.i), BalanceAt(view, s.i), minBalance)
        THEN FAdd(s.accumulatedBalance, BalanceAt(view, s.i))
        ELSE s.accumulatedBalance,
     tail |-> Append(s.tail, s.i),
     loads |-> s.loads \o TailLoads(view, s.i)]

RECURSIVE Znver2TailLoop(_, _, _)
Znver2TailLoop(view, minBalance, s) ==
    IF s.i < view.Count
    THEN Znver2TailLoop(view, minBalance, Znver2TailStep(view, minBalance, s))
    ELSE s

RunAvx2Znver2(view, minBalance) ==
    LET zero == [k \in Lanes8 |-> 0]
        n16 == FloorToWidth(view.Count, VectorWidthZnver2)
        v == Znver2VectorLoop(view, minBalance, n16,
                [i |-> 0, acc0 |-> zero, acc1 |-> zero, vec |-> <<>>,
                 loads |-> <<>>, prefetch |-> <<>>])
        t == Znver2TailLoop(view, minBalance,
                [i |-> v.i,
                 accumulatedBalance |-> Znver2HorizontalSum(v.acc0, v.acc1),
                 tail |-> <<>>, loads |-> v.loads])
    IN  [result |-> t.accumulatedBalance, vec |-> v.vec, tail |-> t.tail,
         loads |-> t.loads, prefetch |-> v.prefetch]

SumActiveBalancesAvx2Znver2(view, minBalance) == RunAvx2Znver2(view, minBalance).result

(***************************************************************************)
(* Repository path (bench-repository.cpp)                                  *)
(***************************************************************************)
Qualifies(user, minBalance) == user.Active /\ user.Balance >= minBalance

\* VectorUserRepository::ForEach running the closure of SumActiveBalances:
\* visited lists the records handed to the visitor, in the order of the calls
RECURSIVE ForEachLoop(_, _, _)
ForEachLoop(repository, minBalance, s) ==
    IF s.k <= Len(repository)
    THEN LET user == repository[s.k]
         IN  ForEachLoop(repository, minBalance,
                [k |-> s.k + 1,
                 accumulatedBalance |->
                    IF Qualifies(user, minBalance)
                    THEN FAdd(s.accumulatedBalance, user.Balance)
                    ELSE s.accumulatedBalance,
                 visited |-> Append(s.visited, user)])
    ELSE s

\* mutant: the traversal begins at the second record
RunRepositoryFromSecond(repository, minBalance) ==
    ForEachLoop(repository, minBalance,
                [k |-> 2, accumulatedBalance |-> 0, visited |-> <<>>])

RunRepository(repository, minBalance) ==
    ForEachLoop(repository, minBalance,
                [k |-> 1, accumulatedBalance |-> 0, visited |-> <<>>])

RepoSumActiveBalances(repository, minBalance) ==
    RunRepository(repository, minBalance).accumulatedBalance

(***************************************************************************)
(* Build configuration (lib.hpp) and the capability dispatchers            *)
(***************************************************************************)
COMPILER_CLANG(macros) == "__clang__" \in macros
\* mutant: the test for clang is inverted
COMPILER_GCC_OnlyWithClang(macros) == "__GNUC__" \in macros /\ "__clang__" \in macros
COMPILER_GCC(macros) == "__GNUC__" \in macros /\ "__clang__" \notin macros
COMPILER_MSVC(macros) == "_MSC_VER" \in macros

\* #if defined(__AVX2__): the vector reducer exists in the binary
Avx2CompiledIn(macros) == "__AVX2__" \in macros

\* #if COMPILER_CLANG || COMPILER_GCC: the run-time query exists in the binary
CpuQueryCompiledIn(macros) == COMPILER_CLANG(macros) \/ COMPILER_GCC(macros)

\* mutant: the answer of the CPU query is not used
DispatchPathIgnoringCpu(macros, cpuSupports) ==
    IF Avx2CompiledIn(macros)
    THEN [queried |-> CpuQueryCompiledIn(macros), invoked |-> "avx2"]
    ELSE [queried |-> FALSE, invoked |-> "scalar"]

\* which reducer a dispatcher reaches, and whether it asked the CPU
DispatchPath(macros, cpuSupports) ==
    IF Avx2CompiledIn(macros)
    THEN IF CpuQueryCompiledIn(macros)
         THEN IF cpuSupports
              THEN [queried |-> TRUE, invoked |-> "avx2"]
              ELSE [queried |-> TRUE, invoked |-> "scalar"]
         ELSE [queried |-> FALSE, invoked |-> "scalar"]
    ELSE [queried |-> FALSE, invoked |-> "scalar"]

\* the conversion of the dispatcher's return statement: its return type is float
DoubleDispatcherReturn(x) == DoubleToFloat(x)

\* what a caller of a scalar reducer gets back: the value, and no vector trace
ScalarOutcome(queried, value) ==
    [queried |-> queried, invoked |-> "scalar", kernel |-> value, value |-> value,
     vec |-> <<>>, tail |-> <<>>]

\* bench-dod-avx2-double.cpp, SumActiveBalances
\*   kernel is what the invoked reducer returned, value what the dispatcher returns
DispatchDouble(macros, cpuSupports, view, minBalance) ==
    LET path == DispatchPath(macros, cpuSupports)
        run == RunAvx2Double(view, minBalance)
    IN  IF path.invoked = "avx2"
        THEN [queried |-> path.queried, invoked |-> "avx2", kernel |-> run.result,
              value |-> DoubleDispatcherReturn(run.result),
              vec |-> run.vec, tail |-> run.tail]
        ELSE ScalarOutcome(path.queried, SumActiveBalancesScalar(view, minBalance))

\* bench-dod-znver2.cpp, SumActiveBalances
DispatchZnver2(macros, cpuSupports, view, minBalance) ==
    LET path == DispatchPath(macros, cpuSupports)
        run == RunAvx2Znver2(view, minBalance)
    IN  IF path.invoked = "avx2"
        THEN [queried |-> path.queried, invoked |-> "avx2", kernel |-> run.result,
              value |-> run.result, vec |-> run.vec, tail |-> run.tail]
        ELSE ScalarOutcome(path.queried, SumActiveBalancesScalar(view, minBalance))

(***************************************************************************)
(* Inputs                                                                  *)
(***************************************************************************)
BalanceValues == {100, 250, 301, 16777216}
ActiveBytes == {0, 1, 2, 255}
Thresholds == {250, 301}

\* the element a view is filled with: inactive, qualifying, active but too small
FillElements ==
    {[balance |-> 250, active |-> 0], [balance |-> 301, active |-> 1],
     [balance |-> 100, active |-> 255]}
\* the element placed at one chosen index
Elements == [balance : BalanceValues, active : ActiveBytes]

\* toolchains by their predefined macros, with and without -mavx2 / /arch:AVX2
Toolchains == {{"__GNUC__"}, {"__clang__", "__GNUC__"}, {"__clang__", "_MSC_VER"},
               {"_MSC_VER"}, {}}
Builds == Toolchains \cup {t \cup {"__AVX2__"} : t \in Toolchains}

\* a view of count elements: element d everywhere, element e at index s
ViewOf(count, d, e, s) ==
    [Ids |-> [k \in 1..count |-> k - 1],
     Balances |-> [k \in 1..count |-> IF k = s + 1 THEN e.balance ELSE d.balance],
     Active |-> [k \in 1..count |-> IF k = s + 1 THEN e.active ELSE d.active],
     Count |-> count]

\* the repository main draws the same records, Active as a bool
UsersOf(view) ==
    [k \in 1..view.Count |->
        [Id |-> view.Ids[k], Balance |-> view.Balances[k],
         Active |-> view.Active[k] # 0]]

\* no reducer has run yet
NoCall ==
    [entry |-> "none", queried |-> FALSE, invoked |-> "none", kernel |-> 0,
     value |-> 0, vec |-> <<>>, tail |-> <<>>]

\* the record of a call made by main
CallOf(entry, r) ==
    [entry |-> entry, queried |-> r.queried, invoked |-> r.invoked,
     kernel |-> r.kernel, value |-> r.value, vec |-> r.vec, tail |-> r.tail]

\* the threads that may call a kernel, and the kernels they may call
Threads == 1..NumThreads
Kernels == {"double", "znver2"}

\* a thread that has not called, and storage nothing has been written to
IdleThread == [pc |-> "idle", kernel |-> "none", i |-> 0, result |-> 0]
EmptyFrame == [acc0 |-> <<>>, acc1 |-> <<>>, accumulatedBalance |-> 0]
NoThreads ==
    /\ threads = [t \in Threads |-> IdleThread]
    /\ frames = [f \in Kernels \X Threads |-> EmptyFrame]

InitData(fill, placed) ==
    \E count \in 0..MaxCount, d \in fill, e \in placed :
        \E s \in 0..(IF count = 0 THEN 0 ELSE count - 1) :
            /\ usersView = ViewOf(count, d, e, s)
            /\ users = UsersOf(ViewOf(count, d, e, s))

\* the build the benchmarks are made for, on a CPU that has the extension
Init ==
    /\ InitData(FillElements, Elements)
    /\ minimumBalance \in Thresholds
    /\ defs = {"__GNUC__", "__AVX2__"}
    /\ cpuAvx2 = TRUE
    /\ call = NoCall
    /\ checksum = 0
    /\ NoThreads

(***************************************************************************)
(* Operations                                                              *)
(***************************************************************************)
Inputs == <<usersView, users, minimumBalance, defs, cpuAvx2, threads, frames>>

\* bench-dod.cpp main: checksum = SumActiveBalances(usersView, minimumBalance)
DodMain ==
    /\ call.entry \in {"none", "DodMain"}
    /\ call' = CallOf("DodMain",
                  ScalarOutcome(FALSE, DodSumActiveBalances(usersView, minimumBalance)))
    /\ checksum' = call'.value
    /\ UNCHANGED Inputs

\* bench-dod-avx2-double.cpp main: double checksum = SumActiveBalances(...)
Avx2DoubleMain ==
    /\ call.entry \in {"none", "Avx2DoubleMain"}
    /\ call' = CallOf("Avx2DoubleMain",
                  DispatchDouble(defs, cpuAvx2, usersView, minimumBalance))
    /\ checksum' = FloatToDouble(call'.value)
    /\ UNCHANGED Inputs

\* bench-dod-znver2.cpp main: float checksum = SumActiveBalances(...)
Znver2Main ==
    /\ call.entry \in {"none", "Znver2Main"}
    /\ call' = CallOf("Znver2Main",
                  DispatchZnver2(defs, cpuAvx2, usersView, minimumBalance))
    /\ checksum' = call'.value
    /\ UNCHANGED Inputs

\* bench-repository.cpp main: checksum = SumActiveBalances(repository, ...)
RepositoryMain ==
    /\ call.entry \in {"none", "RepositoryMain"}
    /\ LET r == RepoSumActiveBalances(users, minimumBalance)
       IN  call' = [entry |-> "RepositoryMain", queried |-> FALSE,
                    invoked |-> "repository", kernel |-> r, value |-> r,
                    vec |-> <<>>, tail |-> <<>>]
    /\ checksum' = call'.value
    /\ UNCHANGED Inputs

Next == DodMain \/ Avx2DoubleMain \/ Znver2Main \/ RepositoryMain

Spec == Init /\ [][Next]_vars

(***************************************************************************)
(* Every build on every CPU: the dispatchers                               *)
(***************************************************************************)
DispatchFill == {[balance |-> 301, active |-> 1], [balance |-> 100, active |-> 0]}
DispatchPlaced ==
    {[balance |-> 16777216, active |-> 1], [balance |-> 100, active |-> 2],
     [balance |-> 250, active |-> 0]}

InitDispatch ==
    /\ InitData(DispatchFill, DispatchPlaced)
    /\ minimumBalance \in Thresholds
    /\ defs \in Builds
    /\ cpuAvx2 \in BOOLEAN
    /\ call = NoCall
    /\ checksum = 0
    /\ NoThreads

NextDispatch == Avx2DoubleMain \/ Znver2Main

SpecDispatch == InitDispatch /\ [][NextDispatch]_vars

(***************************************************************************)
(* The same permutation applied to the three arrays                        *)
(***************************************************************************)
\* position k of the permuted arrays holds what position p[k] held
ApplyPermutation(view, p) ==
    [Ids |-> [k \in 1..view.Count |-> view.Ids[p[k]]],
     Balances |-> [k \in 1..view.Count |-> view.Balances[p[k]]],
     Active |-> [k \in 1..view.Count |-> view.Active[p[k]]],
     Count |-> view.Count]

Rotation(n, r) == [k \in 1..n |-> ((k - 1 + r) % n) + 1]
Transposition(n, i, j) == [k \in 1..n |-> IF k = i THEN j ELSE IF k = j THEN i ELSE k]
Reversal(n) == [k \in 1..n |-> n + 1 - k]

PermuteFill == {[balance |-> 301, active |-> 1], [balance |-> 250, active |-> 0]}
PermutePlaced ==
    {[balance |-> 16777216, active |-> 1], [balance |-> 100, active |-> 255],
     [balance |-> 301, active |-> 0], [balance |-> 250, active |-> 2]}

InitPermute ==
    /\ InitData(PermuteFill, PermutePlaced)
    /\ minimumBalance \in Thresholds
    /\ defs = {"__GNUC__", "__AVX2__"}
    /\ cpuAvx2 = TRUE
    /\ call = NoCall
    /\ checksum = 0
    /\ NoThreads

\* the generated data, not yet permuted
AsGenerated == usersView.Ids = [k \in 1..usersView.Count |-> k - 1]

Permute(p) ==
    /\ AsGenerated
    /\ usersView' = ApplyPermutation(usersView, p)
    /\ users' = UsersOf(usersView')
    /\ UNCHANGED <<minimumBalance, defs, cpuAvx2, call, checksum, threads, frames>>

PermuteRotate ==
    \E r \in 1..(usersView.Count - 1) : Permute(Rotation(usersView.Count, r))

PermuteSwap ==
    \E i \in {1, 9} : \E j \in 1..usersView.Count :
        i < j /\ Permute(Transposition(usersView.Count, i, j))

PermuteReverse == usersView.Count >= 2 /\ Permute(Reversal(usersView.Count))

NextPermute == PermuteRotate \/ PermuteSwap \/ PermuteReverse

SpecPermute == InitPermute /\ [][NextPermute]_vars

(***************************************************************************)
(* Kernel calls on several threads against one view.  A step is one loop   *)
(* iteration, the horizontal reduction, or the return; the steps of        *)
(* different threads interleave in every order.                            *)
(***************************************************************************)
\* mutant: the accumulators have static storage, one set per kernel
FrameOfStatic(kernel, t) == <<kernel, 1>>

\* acc0, acc1 and accumulatedBalance are automatic variables: one set per call
FrameOf(kernel, t) == <<kernel, t>>

KernelWidth(kernel) ==
    IF kernel = "double" THEN VectorWidthDouble ELSE VectorWidthZnver2

KernelZero(kernel) ==
    IF kernel = "double" THEN [k \in Lanes4 |-> 0] ELSE [k \in Lanes8 |-> 0]

\* the loop state a thread's next iteration starts from
ThreadLoopState(t) ==
    LET f == frames[FrameOf(threads[t].kernel, t)]
    IN  [i |-> threads[t].i, acc0 |-> f.acc0, acc1 |-> f.acc1,
         accumulatedBalance |-> f.accumulatedBalance,
         vec |-> <<>>, tail |-> <<>>, loads |-> <<>>, prefetch |-> <<>>]

\* a thread enters a kernel: acc0 = acc1 = 0, i = 0
ThreadCall(t) ==
    /\ threads[t].pc = "idle"
    /\ \E kernel \in Kernels :
          /\ threads' = [threads EXCEPT ![t] =
                 [pc |-> "vector", kernel |-> kernel, i |-> 0, result |-> 0]]
          /\ frames' = [frames EXCEPT ![FrameOf(kernel, t)] =
                 [acc0 |-> KernelZero(kernel), acc1 |-> KernelZero(kernel),
                  accumulatedBalance |-> 0]]
    /\ UNCHANGED <<usersView, users, minimumBalance, defs, cpuAvx2, call, checksum>>

\* one iteration of the vector loop of the kernel the thread is in
ThreadVectorStep(t) ==
    /\ threads[t].pc = "vector"
    /\ threads[t].i < FloorToWidth(usersView.Count, KernelWidth(threads[t].kernel))
    /\ LET kernel == threads[t].kernel
           s == IF kernel = "double"
                THEN DoubleVectorStep(usersView, minimumBalance, ThreadLoopState(t))
                ELSE Znver2VectorStep(usersView, minimumBalance, ThreadLoopState(t))
       IN  /\ threads' = [threads EXCEPT ![t].i = s.i]
           /\ frames' = [frames EXCEPT ![FrameOf(kernel, t)].acc0 = s.acc0,
                                        ![FrameOf(kernel, t)].acc1 = s.acc1]
    /\ UNCHANGED <<usersView, users, minimumBalance, defs, cpuAvx2, call, checksum>>

\* the vector loop is over: accumulatedBalance = the horizontal sum
ThreadReduce(t) ==
    /\ threads[t].pc = "vector"
    /\ ~(threads[t].i < FloorToWidth(usersView.Count, KernelWidth(threads[t].kernel)))
    /\ LET kernel == threads[t].kernel
           s == ThreadLoopState(t)
       IN  /\ threads' = [threads EXCEPT ![t].pc = "tail",
                  ![t].i = IF kernel = "double" THEN DoubleTailStart(s.i) ELSE s.i]
           /\ frames' = [frames EXCEPT ![FrameOf(kernel, t)].accumulatedBalance =
                  IF kernel = "double"
                  THEN DoubleHorizontalSum(s.acc0, s.acc1)
                  ELSE Znver2HorizontalSum(s.acc0, s.acc1)]
    /\ UNCHANGED <<usersView, users, minimumBalance, defs, cpuAvx2, call, checksum>>

\* one iteration of the scalar tail
ThreadTailStep(t) ==
    /\ threads[t].pc = "tail"
    /\ threads[t].i < usersView.Count
    /\ LET kernel == threads[t].kernel
           s == IF kernel = "double"
                THEN DoubleTailStep(usersView, minimumBalance, ThreadLoopState(t))
                ELSE Znver2TailStep(usersView, minimumBalance, ThreadLoopState(t))
       IN  /\ threads' = [threads EXCEPT ![t].i = s.i]
           /\ frames' = [frames EXCEPT ![FrameOf(kernel, t)].accumulatedBalance =
                  s.accumulatedBalance]
    /\ UNCHANGED <<usersView, users, minimumBalance, defs, cpuAvx2, call, checksum>>

\* return accumulatedBalance
ThreadReturn(t) ==
    /\ threads[t].pc = "tail"
    /\ ~(threads[t].i < usersView.Count)
    /\ threads' = [threads EXCEPT ![t].pc = "done",
           ![t].result = ThreadLoopState(t).accumulatedBalance]
    /\ UNCHANGED <<usersView, users, minimumBalance, defs, cpuAvx2, call, checksum,
                   frames>>

\* the views the threads share: empty, shorter than a group, one or two groups
\* of either kernel with and without a tail
ConcurrentCounts == {0, 3, MaxCount - 1, MaxCount}
ConcurrentFill == {[balance |-> 301, active |-> 1]}
ConcurrentPlaced ==
    {[balance |-> 16777216, active |-> 1], [balance |-> 100, active |-> 255],
     [balance |-> 250, active |-> 0]}

InitConcurrent ==
    /\ \E count \in ConcurrentCounts, d \in ConcurrentFill, e \in ConcurrentPlaced :
          \E s \in {0, IF count = 0 THEN 0 ELSE count - 1} :
              /\ usersView = ViewOf(count, d, e, s)
              /\ users = UsersOf(ViewOf(count, d, e, s))
    /\ minimumBalance \in Thresholds
    /\ defs = {"__GNUC__", "__AVX2__"}
    /\ cpuAvx2 = TRUE
    /\ call = NoCall
    /\ checksum = 0
    /\ NoThreads

Call == \E t \in Threads : ThreadCall(t)
VectorStep == \E t \in Threads : ThreadVectorStep(t)
Reduce == \E t \in Threads : ThreadReduce(t)
TailStep == \E t \in Threads : ThreadTailStep(t)
Return == \E t \in Threads : ThreadReturn(t)

NextConcurrent == Call \/ VectorStep \/ Reduce \/ TailStep \/ Return

SpecConcurrent == InitConcurrent /\ [][NextConcurrent]_vars

(***************************************************************************)
(* Properties                                                              *)
(***************************************************************************)
View == usersView
Indices(view) == 0..(view.Count - 1)
IsActive(view, i) == view.Active[i + 1] # 0
Meets(view, minBalance, i) == view.Balances[i + 1] >= minBalance
InSum(view, minBalance, i) == IsActive(view, i) /\ Meets(view, minBalance, i)

\* the exact (unrounded) sum of the balances that are in the sum, from index i on
RECURSIVE ExactSumFrom(_, _, _)
ExactSumFrom(view, minBalance, i) ==
    IF i >= view.Count THEN 0
    ELSE (IF InSum(view, minBalance, i) THEN view.Balances[i + 1] ELSE 0)
         + ExactSumFrom(view, minBalance, i + 1)

ExactSum(view, minBalance) == ExactSumFrom(view, minBalance, 0)

\* every partial sum, in any order, is an integer of at most 24 bits: no
\* single-precision addition rounds
ExactAdditions(view, minBalance) == ExactSum(view, minBalance) <= 16777216

\* the accumulation the scalar reducer is specified by
RECURSIVE OrderedFold(_, _, _, _)
OrderedFold(view, minBalance, i, acc) ==
    IF i >= view.Count THEN acc
    ELSE OrderedFold(view, minBalance, i + 1,
            FAdd(acc, IF InSum(view, minBalance, i) THEN view.Balances[i + 1] ELSE 0))

\* C1: the scalar reducer returns the single-precision accumulation, started at
\* 0 and taken over the indices 0 .. count-1 in increasing order, of balances[i]
\* where activeFlags[i] # 0 and balances[i] >= minimumBalance and of 0 elsewhere.
C1_ScalarIsOrderedFold ==
    call.invoked = "scalar" =>
        /\ call.kernel = OrderedFold(View, minimumBalance, 0, 0)
        /\ call.value = call.kernel

C1_Witness ==
    /\ call.entry = "DodMain"
    /\ View.Count >= 3
    /\ \E i, j \in Indices(View) :
          /\ i < j
          /\ IsActive(View, i) /\ ~Meets(View, minimumBalance, i)
          /\ InSum(View, minimumBalance, j)
    /\ call.value > 0
    /\ checksum = call.value

\* the example of the specification
ExampleView ==
    [Ids |-> <<0, 1, 2, 3>>, Balances |-> <<100, 300, 250, 999>>,
     Active |-> <<1, 1, 0, 1>>, Count |-> 4]

ExampleAgrees ==
    /\ SumActiveBalancesScalar(ExampleView, 250) = 1299
    /\ SumActiveBalancesAvx2Double(ExampleView, 250) = 1299
    /\ SumActiveBalancesAvx2Znver2(ExampleView, 250) = 1299

\* C2: whenever no addition rounds, the wide-accumulation reducer and the
\* same-precision reducer return exactly the scalar reducer's sum on the same
\* view and threshold; on the example all three return 1299.
C2_VectorEqualsScalarWhenExact ==
    /\ ExampleAgrees
    /\ (call.invoked = "avx2" /\ ExactAdditions(View, minimumBalance)) =>
          call.kernel = SumActiveBalancesScalar(View, minimumBalance)

C2_Witness ==
    /\ call.entry = "Avx2DoubleMain"
    /\ call.invoked = "avx2"
    /\ View.Count > 2 * VectorWidthDouble
    /\ ExactAdditions(View, minimumBalance)
    /\ \E i \in Indices(View) : i >= 12 /\ i < 16 /\ InSum(View, minimumBalance, i)
    /\ \E i \in Indices(View) : ~InSum(View, minimumBalance, i)
    /\ call.kernel = ExactSum(View, minimumBalance)
    /\ call.kernel > 0

\* the indices 0 .. n-1 in increasing order
Ascending(from, n) == [k \in 1..n |-> from + k - 1]

Occurrences(seq, x) == Cardinality({k \in DOMAIN seq : seq[k] = x})

\* the loops of one kernel run split 0 .. count-1 at W * floor(count / W)
CoversOnce(run, count, width) ==
    LET n == width * (count \div width)
    IN  /\ run.vec = Ascending(0, n)
        /\ run.tail = Ascending(n, count - n)
        /\ Len(run.tail) = count % width
        /\ \A i \in 0..(count - 1) : Occurrences(run.vec \o run.tail, i) = 1
        /\ Len(run.vec) + Len(run.tail) = count

GroupWidth(entry) == IF entry = "Avx2DoubleMain" THEN 8 ELSE 16

\* C3: in both vector reducers, for every count, the vector loop handles the
\* indices below W * floor(count / W) and the scalar tail the count mod W
\* indices that remain, each index of 0 .. count-1 by exactly one of the two
\* loops and exactly once, and each contributes once: when no addition rounds
\* the result is the exact sum of the balances that meet the predicate.
C3_EveryIndexExactlyOnce ==
    call.invoked = "avx2" =>
        /\ CoversOnce(call, View.Count, GroupWidth(call.entry))
        /\ ExactAdditions(View, minimumBalance) =>
              call.kernel = ExactSum(View, minimumBalance)

C3_Witness ==
    /\ call.entry = "Znver2Main"
    /\ call.invoked = "avx2"
    /\ View.Count = 17
    /\ InSum(View, minimumBalance, 16)
    /\ \E i \in 0..7 : ~InSum(View, minimumBalance, i)
    /\ Len(call.vec) = 16
    /\ call.tail = <<16>>
    /\ call.kernel = ExactSum(View, minimumBalance)

\* every nonzero activity byte replaced by 1
Saturated(view) ==
    [view EXCEPT !.Active = [k \in 1..view.Count |->
                                IF view.Active[k] # 0 THEN 1 ELSE 0]]

\* the reducer a call invoked, as a function of the view
InvokedReducer(c, view, minBalance) ==
    IF c.invoked = "scalar" THEN SumActiveBalancesScalar(view, minBalance)
    ELSE IF c.entry = "Avx2DoubleMain"
         THEN SumActiveBalancesAvx2Double(view, minBalance)
         ELSE SumActiveBalancesAvx2Znver2(view, minBalance)

\* in a vector lane the multiplier is 0 for the byte 0 and 1 for every other byte
LaneMultiplierIsZeroOrOne ==
    \A byte \in 0..255 : ActiveLane(byte) = (IF byte = 0 THEN 0 ELSE 1)

\* C4: a reducer (scalar, or vector in its lanes and in its tail) returns on a
\* view what it returns on the same view with every nonzero activity byte
\* replaced by 1, an element with a nonzero byte is excluded only by its
\* balance, and the multiplier of a vector lane is exactly 0 or 1.
C4_NonzeroByteActsAsOne ==
    /\ LaneMultiplierIsZeroOrOne
    /\ call.invoked \in {"scalar", "avx2"} =>
          /\ call.kernel = InvokedReducer(call, Saturated(View), minimumBalance)
          /\ ExactAdditions(View, minimumBalance) =>
                call.kernel = ExactSum(Saturated(View), minimumBalance)

C4_Witness ==
    /\ call.invoked = "avx2"
    /\ View.Count = 17
    /\ \E i \in Indices(View) :
          /\ i < 8
          /\ View.Active[i + 1] = 255
          /\ InSum(View, minimumBalance, i)
    /\ View.Active[17] = 1
    /\ call.kernel = ExactSum(View, minimumBalance)
    /\ call.kernel > minimumBalance

NumberAtThreshold(view, minBalance) ==
    Cardinality({i \in Indices(view) :
                    IsActive(view, i) /\ view.Balances[i + 1] = minBalance})

NoneAboveThreshold(view, minBalance) ==
    \A i \in Indices(view) : IsActive(view, i) => view.Balances[i + 1] <= minBalance

\* C5: when no active element has a balance above minimumBalance, every reducer
\* (scalar, repository, vector in lanes and tail) returns minimumBalance times
\* the number of active elements whose balance equals minimumBalance: those are
\* included, the active elements strictly below are not.
C5_ThresholdIsInclusive ==
    (call.entry # "none" /\ NoneAboveThreshold(View, minimumBalance)) =>
        call.kernel = minimumBalance * NumberAtThreshold(View, minimumBalance)

C5_Witness ==
    /\ call.entry = "Znver2Main"
    /\ call.invoked = "avx2"
    /\ View.Count = 17
    /\ NoneAboveThreshold(View, minimumBalance)
    /\ NumberAtThreshold(View, minimumBalance) = 16
    /\ \E i \in Indices(View) : IsActive(View, i) /\ ~Meets(View, minimumBalance, i)
    /\ IsActive(View, 16) /\ View.Balances[17] = minimumBalance
    /\ call.kernel = 16 * minimumBalance

\* C6: a dispatcher invokes the vector reducer only when the vector path is
\* compiled in and the CPU query was made and answered yes; in every other case
\* it invokes the scalar reducer and returns exactly the scalar reducer's
\* result; it always returns a result.
C6_VectorOnlyWhenCompiledAndSupported ==
    call.entry # "none" =>
        /\ call.invoked \in {"avx2", "scalar"}
        /\ call.invoked = "avx2" <=>
              ("__AVX2__" \in defs /\ call.queried /\ cpuAvx2)
        /\ call.queried => "__AVX2__" \in defs
        /\ call.invoked = "scalar" =>
              /\ call.value = SumActiveBalancesScalar(View, minimumBalance)
              /\ checksum = call.value

C6_Witness ==
    /\ call.entry = "Avx2DoubleMain"
    /\ "__AVX2__" \in defs
    /\ call.queried
    /\ ~cpuAvx2
    /\ call.invoked = "scalar"
    /\ View.Count >= 8
    /\ call.value > 0
    /\ call.value # SumActiveBalancesAvx2Double(View, minimumBalance)

\* C7 as stated: whenever the vector path is compiled in, the dispatcher
\* queries the CPU and invokes the vector reducer if the CPU has the extension,
\* the scalar reducer only if it has not.
C7_QueriesInEveryAvx2Build ==
    (call.entry # "none" /\ "__AVX2__" \in defs) =>
        /\ call.queried
        /\ cpuAvx2 => call.invoked = "avx2"
        /\ call.invoked = "scalar" => ~cpuAvx2

\* C7, amended: whenever the vector path is compiled in by Clang or GCC, the
\* dispatcher queries the CPU and invokes the vector reducer if the CPU has the
\* extension, the scalar reducer only if it has not; compiled in by any other
\* compiler, the dispatcher makes no query and invokes the scalar reducer.
C7_QueriesInClangAndGccBuilds ==
    (call.entry # "none" /\ "__AVX2__" \in defs) =>
        IF "__clang__" \in defs \/ "__GNUC__" \in defs
        THEN /\ call.queried
             /\ cpuAvx2 => call.invoked = "avx2"
             /\ call.invoked = "scalar" => ~cpuAvx2
        ELSE ~call.queried /\ call.invoked = "scalar"

C7_Witness ==
    /\ call.entry = "Znver2Main"
    /\ defs = {"__GNUC__", "__AVX2__"}
    /\ cpuAvx2
    /\ call.queried
    /\ call.invoked = "avx2"
    /\ View.Count >= 16

\* C8 as stated: when the dispatcher of the wide-accumulation binary selects
\* the vector reducer, what it returns, and what main stores as the checksum,
\* is the vector reducer's double-precision result unchanged.
C8_DispatcherKeepsDoubleResult ==
    (call.entry = "Avx2DoubleMain" /\ call.invoked = "avx2") =>
        /\ call.value = call.kernel
        /\ checksum = call.kernel

ZeroCase(view, minBalance) ==
    \/ view.Count = 0
    \/ \A i \in Indices(view) : view.Balances[i + 1] < minBalance
    \/ \A i \in Indices(view) : view.Active[i + 1] = 0

\* C9: with count = 0, or a threshold greater than every balance, or every
\* activity flag 0, the reducer that ran (scalar, either vector reducer) and
\* the dispatcher that called it return 0.
C9_ZeroCases ==
    (call.entry # "none" /\ ZeroCase(View, minimumBalance)) =>
        call.kernel = 0 /\ call.value = 0 /\ checksum = 0

C9_Witness ==
    /\ call.entry = "Avx2DoubleMain"
    /\ call.invoked = "avx2"
    /\ View.Count >= 16
    /\ \A i \in Indices(View) : View.Balances[i + 1] < minimumBalance
    /\ \E i \in Indices(View) : i < 8 /\ IsActive(View, i)
    /\ call.value = 0

\* C10: when no addition rounds, applying one permutation to the identifiers,
\* balances and activeFlags leaves the result of the scalar reducer and of both
\* vector reducers exactly unchanged.
C10_PermutationInsensitive ==
    [][(usersView' # usersView /\ ExactAdditions(usersView, minimumBalance)) =>
          /\ SumActiveBalancesScalar(usersView', minimumBalance)
                = SumActiveBalancesScalar(usersView, minimumBalance)
          /\ SumActiveBalancesAvx2Double(usersView', minimumBalance)
                = SumActiveBalancesAvx2Double(usersView, minimumBalance)
          /\ SumActiveBalancesAvx2Znver2(usersView', minimumBalance)
                = SumActiveBalancesAvx2Znver2(usersView, minimumBalance)]_vars

\* an element the vector loop read before the permutation is read by the tail
C10_Witness ==
    /\ ~AsGenerated
    /\ View.Count = 17
    /\ View.Ids[17] < 8
    /\ InSum(View, minimumBalance, 16)
    /\ \A i \in 0..15 : ~InSum(View, minimumBalance, i)
    /\ ExactAdditions(View, minimumBalance)
    /\ SumActiveBalancesAvx2Znver2(View, minimumBalance) = View.Balances[17]

\* C11: kernel calls running at the same time on different threads against
\* one view, in every interleaving of their steps: no step changes the view's
\* arrays or count, the threshold or any other state outside the stepping
\* call's own variables, and every call that has returned returned what the
\* kernel returns when it runs alone on that view and threshold.
AloneResult(kernel) ==
    IF kernel = "double"
    THEN SumActiveBalancesAvx2Double(usersView, minimumBalance)
    ELSE SumActiveBalancesAvx2Znver2(usersView, minimumBalance)

ReturnedAsAlone ==
    \A t \in Threads :
        threads[t].pc = "done" => threads[t].result = AloneResult(threads[t].kernel)

WritesOnlyOwnVariables ==
    /\ usersView' = usersView
    /\ users' = users
    /\ minimumBalance' = minimumBalance
    /\ defs' = defs /\ cpuAvx2' = cpuAvx2
    /\ call' = call /\ checksum' = checksum
    /\ \A u \in Threads :
          threads'[u] = threads[u] =>
              \A kernel \in Kernels : frames'[<<kernel, u>>] = frames[<<kernel, u>>]

C11_ConcurrentCallsAreIsolated ==
    []ReturnedAsAlone /\ [][WritesOnlyOwnVariables]_vars

\* one call has returned a nonzero sum while another call of the same kernel
\* is in the middle of its vector loop on the same view
C11_Witness ==
    /\ threads[1].pc = "done" /\ threads[1].kernel = "double"
    /\ threads[1].result > 0
    /\ threads[2].pc = "vector" /\ threads[2].kernel = "double"
    /\ threads[2].i = VectorWidthDouble
    /\ frames[<<"double", 2>>].acc0 # frames[<<"double", 1>>].acc0

\* C12: the repository's filtered sum hands every record to the visitor exactly
\* once, in storage order, skipping none, and returns what the scalar reducer
\* returns on the structure-of-arrays view holding the same balances and
\* activity flags in the same order, for the same threshold.
ViewOfUsers(repository) ==
    [Ids |-> [k \in 1..Len(repository) |-> repository[k].Id],
     Balances |-> [k \in 1..Len(repository) |-> repository[k].Balance],
     Active |-> [k \in 1..Len(repository) |-> IF repository[k].Active THEN 1 ELSE 0],
     Count |-> Len(repository)]

C12_RepositoryEqualsScalarReducer ==
    call.entry = "RepositoryMain" =>
        LET run == RunRepository(users, minimumBalance)
        IN  /\ run.visited = users
            /\ call.kernel = run.accumulatedBalance
            /\ call.kernel =
                   SumActiveBalancesScalar(ViewOfUsers(users), minimumBalance)

\* a repository of three or more records, a qualifying one stored before one
\* that does not qualify, summed to a nonzero value
C12_Witness ==
    /\ call.entry = "RepositoryMain"
    /\ Len(users) >= 3
    /\ call.value > 0
    /\ \E j, k \in 1..Len(users) :
          /\ j < k
          /\ Qualifies(users[j], minimumBalance)
          /\ ~Qualifies(users[k], minimumBalance)

\* C13: for every count, every element a vector reducer fetches, by a group
\* load of balances, a group load of activity bytes or a tail read, belongs to
\* balances or activeFlags and has an index in [0, count); the wide reducer
\* issues no prefetch hint, so only the same-precision reducer's hints can name
\* an address past the arrays; identifiers are never fetched.
InvokedRun ==
    IF call.entry = "Avx2DoubleMain"
    THEN RunAvx2Double(usersView, minimumBalance)
    ELSE RunAvx2Znver2(usersView, minimumBalance)

LoadsInBounds(run, view) ==
    \A k \in DOMAIN run.loads :
        /\ run.loads[k].array \in {"balances", "activeFlags"}
        /\ run.loads[k].index >= 0
        /\ run.loads[k].index < view.Count

C13_LoadsStayInsideTheArrays ==
    call.invoked = "avx2" =>
        /\ LoadsInBounds(InvokedRun, usersView)
        /\ call.entry = "Avx2DoubleMain" => InvokedRun.prefetch = <<>>

\* the same-precision reducer on a view of one group and a tail: it fetched
\* the last element, and its prefetch hint names a byte past the balances
C13_Witness ==
    /\ call.entry = "Znver2Main" /\ call.invoked = "avx2"
    /\ usersView.Count > VectorWidthZnver2
    /\ \E k \in DOMAIN InvokedRun.loads :
          /\ InvokedRun.loads[k].array = "balances"
          /\ InvokedRun.loads[k].index = usersView.Count - 1
    /\ \E k \in DOMAIN InvokedRun.prefetch :
          /\ InvokedRun.prefetch[k].array = "balances"
          /\ InvokedRun.prefetch[k].byte >= 4 * usersView.Count

====
